---------------------------- MODULE Spec2Model ----------------------------
(***************************************************************************)
(* Model of ActionSearchRealEstate.run (Rasa RealEstate/actions/actions.py) *)
(* One request: read the two slots, fetch the bindings, score every        *)
(* binding, sort, build the response, utter it, return [].                 *)
(*                                                                         *)
(* Python strings that the code splits or parses are sequences of          *)
(* one-character strings; display-only strings are TLA+ strings.           *)
(* A binding is a function whose DOMAIN is the set of keys present in the  *)
(* Python dict ('geo' in result  <=>  "geo" \in DOMAIN result).            *)
(* Angles are integers in thousandths of a degree, distances in metres.    *)
(***************************************************************************)
EXTENDS Integers, Sequences, FiniteSets, TLC

VARIABLES
    slots,            \* tracker slots work_latitude / work_longitude
    store,            \* what fetch_data will do: return bindings or raise
    pc,               \* position in run(): start, fetch, loop, done
    user_lat,         \* local user_lat (line 33)
    user_lon,         \* local user_lon (line 34)
    results,          \* results["results"]["bindings"]
    i,                \* 1-based position of the for loop of line 101
    recommendations,  \* local recommendations
    messages,         \* texts handed to dispatcher.utter_message, in order
    outcome           \* how run() ended: running, returned (with []), raised

vars == <<slots, store, pc, user_lat, user_lon, results, i,
          recommendations, messages, outcome>>

-----------------------------------------------------------------------------
(* Bounds of the model *)

\* longest batch of bindings drawn from RankKinds
MaxRecords == 6

-----------------------------------------------------------------------------
(* Program constants *)

\* recommendations[:5]
TopK == 5

\* distance <= 5 (km)
NearKm == 5

\* "10.848"
DefaultLat == <<"1","0",".","8","4","8">>

\* "106.787"
DefaultLon == <<"1","0","6",".","7","8","7">>

-----------------------------------------------------------------------------
(* str.split(sep) *)

IsSepAt(s, sep, p) ==
    /\ p + Len(sep) - 1 <= Len(s)
    /\ SubSeq(s, p, p + Len(sep) - 1) = sep

RECURSIVE SplitFrom(_, _, _, _)
SplitFrom(s, sep, p, cur) ==
    IF p > Len(s) THEN <<cur>>
    ELSE IF IsSepAt(s, sep, p)
         THEN <<cur>> \o SplitFrom(s, sep, p + Len(sep), <<>>)
         ELSE SplitFrom(s, sep, p + 1, Append(cur, s[p]))

Split(s, sep) == SplitFrom(s, sep, 1, <<>>)

-----------------------------------------------------------------------------
(* float(text): surrounding blanks are stripped, an optional sign, digits  *)
(* with at most one decimal point and at least one digit; anything else    *)
(* raises ValueError.  The value is in thousandths.                        *)

Digits == {"0","1","2","3","4","5","6","7","8","9"}

DigitVal(c) ==
    CASE c = "0" -> 0 [] c = "1" -> 1 [] c = "2" -> 2 [] c = "3" -> 3
      [] c = "4" -> 4 [] c = "5" -> 5 [] c = "6" -> 6 [] c = "7" -> 7
      [] c = "8" -> 8 [] c = "9" -> 9

RECURSIVE Strip(_)
Strip(s) ==
    IF s = <<>> THEN s
    ELSE IF Head(s) = " " THEN Strip(Tail(s))
    ELSE IF s[Len(s)] = " " THEN Strip(SubSeq(s, 1, Len(s) - 1))
    ELSE s

Unsigned(s) == IF s # <<>> /\ Head(s) \in {"-", "+"} THEN Tail(s) ELSE s

AllDigits(s) == \A k \in 1..Len(s) : s[k] \in Digits

RECURSIVE NatVal(_)
NatVal(s) == IF s = <<>> THEN 0
             ELSE 10 * NatVal(SubSeq(s, 1, Len(s) - 1)) + DigitVal(s[Len(s)])

\* the fraction digits as thousandths
Thousandths(f) == NatVal(SubSeq(f \o <<"0","0","0">>, 1, 3))

FloatOk(text) ==
    LET u == Unsigned(Strip(text))
        parts == Split(u, <<".">>)
    IN /\ Len(parts) \in {1, 2}
       /\ \A k \in 1..Len(parts) : AllDigits(parts[k])
       /\ \E k \in 1..Len(parts) : parts[k] # <<>>

Float(text) ==
    LET t == Strip(text)
        u == Unsigned(t)
        parts == Split(u, <<".">>)
        mag == 1000 * NatVal(parts[1])
               + (IF Len(parts) = 2 THEN Thousandths(parts[2]) ELSE 0)
    IN IF t # <<>> /\ Head(t) = "-" THEN 0 - mag ELSE mag

-----------------------------------------------------------------------------
(* calculate_distance: the haversine distance, in metres, tabulated from   *)
(* the source function at the coordinates the inputs below can name        *)
(* (arguments in thousandths of a degree).                                 *)

calculate_distance(lat1, lon1, lat2, lon2) ==
    LET a == <<lat1, lon1>>
        b == <<lat2, lon2>>
    IN CASE a = b -> 0
         [] a = <<10848, 106787>> /\ b = <<10850, 106790>> -> 396
         [] a = <<10848, 106787>> /\ b = <<10880, 106800>> -> 3831
         [] a = <<10848, 106787>> /\ b = <<10900, 106800>> -> 5954
         [] a = <<10848, 106787>> /\ b = <<11500, 107500>> -> 106328
         [] a = <<10900, 106800>> /\ b = <<10850, 106790>> -> 5666
         [] a = <<10900, 106800>> /\ b = <<10880, 106800>> -> 2224
         [] a = <<10900, 106800>> /\ b = <<11500, 107500>> -> 101395
         [] a = <<10900, 106787>> /\ b = <<10850, 106790>> -> 5569
         [] a = <<10900, 106787>> /\ b = <<10880, 106800>> -> 2638
         [] a = <<10900, 106787>> /\ b = <<10900, 106800>> -> 1419
         [] a = <<10900, 106787>> /\ b = <<11500, 107500>> -> 102467
         [] a = <<10848, 106800>> /\ b = <<10850, 106790>> -> 1114
         [] a = <<10848, 106800>> /\ b = <<10880, 106800>> -> 3558
         [] a = <<10848, 106800>> /\ b = <<10900, 106800>> -> 5782
         [] a = <<10848, 106800>> /\ b = <<11500, 107500>> -> 105295

\* f"{distance:.1f}": tenths of a kilometre
OneDecimal(metres) == (metres + 50) \div 100


-----------------------------------------------------------------------------
(* Inputs: slot values, bindings, fetch failures *)

\* "10.9" and "106.8": a work place the caller supplies
SuppliedLat == <<"1","0",".","9">>
SuppliedLon == <<"1","0","6",".","8">>

\* the tracker: a slot that is not set (None) is not in the DOMAIN
SlotStates ==
    { <<>>,
      [work_latitude |-> SuppliedLat],
      [work_longitude |-> SuppliedLon],
      [work_latitude |-> SuppliedLat, work_longitude |-> SuppliedLon] }

\* values of the geo binding
GeoNear      == <<"1","0",".","8","5",",","1","0","6",".","7","9">>
GeoNearSpace == <<"1","0",".","8","5",","," ","1","0","6",".","7","9">>
GeoMid       == <<"1","0",".","8","8",",","1","0","6",".","8">>
GeoWork      == <<"1","0",".","9",",","1","0","6",".","8">>
GeoFar       == <<"1","1",".","5",",","1","0","7",".","5">>
GeoOnePart   == <<"1","0",".","8","5">>
GeoThree     == <<"1","0",".","8","5",",","1","0","6",".","7","9",",","0">>
GeoEmpty     == <<>>
GeoBadLon    == <<"1","0",".","8","5",",","x">>
GeoBadLat    == <<"x",",","1","0","6",".","7","9">>
GeoComma     == <<",">>

GeoValues == { GeoNear, GeoNearSpace, GeoMid, GeoWork, GeoFar, GeoOnePart,
               GeoThree, GeoEmpty, GeoBadLon, GeoBadLat, GeoComma }

\* values of the aggregated bindings: "", "P", "P, G", "P,G" / "", "K", "K, S"
FacValues == { <<>>, <<"P">>, <<"P",","," ","G">>, <<"P",",","G">> }
SurValues == { <<>>, <<"K">>, <<"K",","," ","S">> }

Field(key, values) == { <<>> } \cup { (key :> [value |-> v]) : v \in values }

DisplayParts ==
    { <<>>,
      [project_name |-> [value |-> "Vinhomes"], type_name |-> [value |-> "apartment"],
       ward_name |-> [value |-> "W1"], area_name |-> [value |-> "D9"],
       region_name |-> [value |-> "HCM"], price |-> [value |-> "2500"],
       rooms |-> [value |-> "2"], size |-> [value |-> "70"]] }

\* every combination of present/absent geo, facilities, surroundings
RichRecords ==
    { g @@ f @@ s @@ d : g \in Field("geo", GeoValues),
                         f \in Field("all_facilities", FacValues),
                         s \in Field("all_surroundings", SurValues),
                         d \in DisplayParts }

\* bindings for the longer batches: two of equal score, one higher, one
\* whose geo cannot be parsed, one with nothing to score
RankKinds ==
    { [project_name |-> [value |-> "A"], all_facilities |-> [value |-> <<"P">>]],
      [project_name |-> [value |-> "B"], all_surroundings |-> [value |-> <<"K">>]],
      [project_name |-> [value |-> "C"], geo |-> [value |-> GeoNear],
       all_facilities |-> [value |-> <<"P",","," ","G">>]],
      [project_name |-> [value |-> "D"], geo |-> [value |-> GeoBadLon],
       all_facilities |-> [value |-> <<"P">>]] }

RankBatches == UNION { [1..n -> RankKinds] : n \in 0..MaxRecords }

RichBatches == { <<r>> : r \in RichRecords }

\* exceptions fetch_data can raise (network, endpoint, query syntax)
FetchErrors == { "URLError", "EndPointNotFound", "QueryBadFormed" }

Returning(batches) == { [ok |-> TRUE, bindings |-> b] : b \in batches }

Raising == { [ok |-> FALSE, error |-> e] : e \in FetchErrors }

\* one binding of every shape and the failures under every slot state, the
\* longer batches with no slot set
Requests ==
    (SlotStates \X (Returning(RichBatches) \cup Raising))
    \cup ({ <<>> } \X Returning(RankBatches))

-----------------------------------------------------------------------------
(* Helpers of run() *)

\* tracker.get_slot(name) or default
SlotOr(name, default) ==
    IF name \in DOMAIN slots /\ slots[name] # <<>> THEN slots[name] ELSE default

\* result.get(key, {}).get('value', default)
Get(result, key, default) ==
    IF key \in DOMAIN result THEN result[key].value ELSE default

\* variant: lat, lon = geo_parts without the length test of line 109
GeoRaises_Unpack(result, ulat, ulon) ==
    /\ "geo" \in DOMAIN result
    /\ LET geo_parts == Split(result["geo"].value, <<",">>)
       IN \/ Len(geo_parts) # 2
          \/ ~ /\ FloatOk(ulat)
               /\ FloatOk(ulon)
               /\ FloatOk(geo_parts[1])
               /\ FloatOk(geo_parts[2])

\* the geo block raises ValueError (caught at line 118)
GeoRaises(result, ulat, ulon) ==
    /\ "geo" \in DOMAIN result
    /\ LET geo_parts == Split(result["geo"].value, <<",">>)
       IN /\ Len(geo_parts) = 2
          /\ ~ /\ FloatOk(ulat)
               /\ FloatOk(ulon)
               /\ FloatOk(geo_parts[1])
               /\ FloatOk(geo_parts[2])

\* variant: the point is given without the test of line 115
AfterGeo_AnyDistance(result, ulat, ulon) ==
    IF "geo" \in DOMAIN result /\ Len(Split(result["geo"].value, <<",">>)) = 2
    THEN LET geo_parts == Split(result["geo"].value, <<",">>)
             distance == calculate_distance(
                             Float(ulat), Float(ulon),
                             Float(geo_parts[1]), Float(geo_parts[2]))
         IN [score |-> 1, reasons |-> << <<"distance", OneDecimal(distance)>> >>]
    ELSE [score |-> 0, reasons |-> <<>>]

\* score and reasons after the geo block (lines 102-117)
AfterGeo(result, ulat, ulon) ==
    LET start == [score |-> 0, reasons |-> <<>>]
    IN IF "geo" \in DOMAIN result
       THEN LET geo_parts == Split(result["geo"].value, <<",">>)
            IN IF Len(geo_parts) = 2
               THEN LET distance == calculate_distance(
                                        Float(ulat), Float(ulon),
                                        Float(geo_parts[1]), Float(geo_parts[2]))
                    IN IF distance <= NearKm * 1000
                       THEN [score |-> start.score + 1,
                             reasons |-> Append(start.reasons,
                                                <<"distance", OneDecimal(distance)>>)]
                       ELSE start
               ELSE start
       ELSE start

\* variant: reasons.append of the whole list instead of reasons.extend
AfterList_Append(st, result, key, label) ==
    IF key \in DOMAIN result
    THEN LET items == Split(result[key].value, <<",", " ">>)
         IN [score |-> st.score + Len(items),
             reasons |-> Append(st.reasons, <<label, items>>)]
    ELSE st

\* score and reasons after one aggregated field (lines 123-126, 129-132)
AfterList(st, result, key, label) ==
    IF key \in DOMAIN result
    THEN LET items == Split(result[key].value, <<",", " ">>)
         IN [score |-> st.score + Len(items),
             reasons |-> st.reasons \o [k \in 1..Len(items) |-> <<label, items[k]>>]]
    ELSE st

AfterFacilities(st, result) == AfterList(st, result, "all_facilities", "has")

AfterSurroundings(st, result) == AfterList(st, result, "all_surroundings", "near")

project_info(result, st) ==
    [project_name |-> Get(result, "project_name", "N/A"),
     type |-> Get(result, "type_name", "N/A"),
     location |-> <<Get(result, "ward_name", ""), Get(result, "area_name", ""),
                    Get(result, "region_name", "")>>,
     price |-> Get(result, "price", "N/A"),
     rooms |-> Get(result, "rooms", "N/A"),
     size |-> Get(result, "size", "N/A"),
     score |-> st.score,
     reasons |-> st.reasons]

\* the body of the loop for a binding that reaches line 145
Scored(result, ulat, ulon) ==
    project_info(result,
                 AfterSurroundings(AfterFacilities(AfterGeo(result, ulat, ulon),
                                                   result),
                                   result))

\* variant: x goes before the elements of equal score (sort, then reverse)
InsertByScore_BeforeEqual(sorted, x) ==
    LET n == Cardinality({k \in 1..Len(sorted) : sorted[k].score > x.score})
    IN SubSeq(sorted, 1, n) \o <<x>> \o SubSeq(sorted, n + 1, Len(sorted))

\* list.sort(key=score, reverse=True): x goes after every element whose
\* score is >= its own, so equal scores keep their order
InsertByScore(sorted, x) ==
    LET n == Cardinality({k \in 1..Len(sorted) : sorted[k].score >= x.score})
    IN SubSeq(sorted, 1, n) \o <<x>> \o SubSeq(sorted, n + 1, Len(sorted))

RECURSIVE SortByScore(_)
SortByScore(recs) ==
    IF recs = <<>> THEN <<>>
    ELSE InsertByScore(SortByScore(SubSeq(recs, 1, Len(recs) - 1)), recs[Len(recs)])

\* the lines written for one recommendation (lines 153-162)
Render(rec) ==
    << <<"name", rec.project_name, rec.type>>,
       <<"location", rec.location>>,
       <<"price", rec.price>>,
       <<"rooms", rec.rooms>>,
       <<"size", rec.size>>,
       <<"score", rec.score>>,
       <<"reasons">> >>
    \o [k \in 1..Len(rec.reasons) |-> <<"reason", rec.reasons[k]>>]

\* variant: no slice
Top_All(recs) == recs

\* recommendations[:5]
Top(recs) == SubSeq(recs, 1, IF Len(recs) < TopK THEN Len(recs) ELSE TopK)

\* variant: without the test of line 164
Response_ListOnly(recs) ==
    [kind |-> "list",
     entries |-> [k \in 1..Len(Top(recs)) |-> Render(Top(recs)[k])]]

\* the response text (lines 151-165)
Response(recs) ==
    LET listing == [kind |-> "list",
                    entries |-> [k \in 1..Len(Top(recs)) |-> Render(Top(recs)[k])]]
    IN IF recs = <<>> THEN [kind |-> "none"] ELSE listing

\* the text of the except branch (line 170)
ErrorNotice(e) == [kind |-> "error", detail |-> e]

-----------------------------------------------------------------------------
(* The request *)

Init ==
    /\ \E request \in Requests :
          /\ slots = request[1]
          /\ store = request[2]
    /\ pc = "start"
    /\ user_lat = <<>>
    /\ user_lon = <<>>
    /\ results = <<>>
    /\ i = 0
    /\ recommendations = <<>>
    /\ messages = <<>>
    /\ outcome = "running"

\* lines 33-34
GetSlots ==
    /\ pc = "start"
    /\ user_lat' = SlotOr("work_latitude", DefaultLat)
    /\ user_lon' = SlotOr("work_longitude", DefaultLon)
    /\ pc' = "fetch"
    /\ UNCHANGED <<slots, store, results, i, recommendations, messages, outcome>>

\* lines 98-99: fetch_data returns
FetchReturns ==
    /\ pc = "fetch"
    /\ store.ok
    /\ results' = store.bindings
    /\ recommendations' = <<>>
    /\ i' = 1
    /\ pc' = "loop"
    /\ UNCHANGED <<slots, store, user_lat, user_lon, messages, outcome>>

\* variant: no except branch, the exception leaves run()
FetchRaises_Propagates ==
    /\ pc = "fetch"
    /\ ~store.ok
    /\ outcome' = "raised"
    /\ pc' = "done"
    /\ UNCHANGED <<slots, store, user_lat, user_lon, results, i,
                   recommendations, messages>>

\* line 98 raises; lines 169-172
FetchRaises ==
    /\ pc = "fetch"
    /\ ~store.ok
    /\ messages' = Append(messages, ErrorNotice(store.error))
    /\ outcome' = "returned"
    /\ pc' = "done"
    /\ UNCHANGED <<slots, store, user_lat, user_lon, results, i, recommendations>>

\* one pass of the loop that reaches line 145
ScoreRecord ==
    /\ pc = "loop"
    /\ i <= Len(results)
    /\ ~GeoRaises(results[i], user_lat, user_lon)
    /\ recommendations' = Append(recommendations,
                                 Scored(results[i], user_lat, user_lon))
    /\ i' = i + 1
    /\ UNCHANGED <<slots, store, pc, user_lat, user_lon, results, messages, outcome>>

\* one pass of the loop that ends in the continue of line 120
SkipRecord ==
    /\ pc = "loop"
    /\ i <= Len(results)
    /\ GeoRaises(results[i], user_lat, user_lon)
    /\ i' = i + 1
    /\ UNCHANGED <<slots, store, pc, user_lat, user_lon, results,
                   recommendations, messages, outcome>>

\* lines 148-172: sort, build the response, utter it, return []
Present ==
    /\ pc = "loop"
    /\ i > Len(results)
    /\ recommendations' = SortByScore(recommendations)
    /\ messages' = Append(messages, Response(recommendations'))
    /\ outcome' = "returned"
    /\ pc' = "done"
    /\ UNCHANGED <<slots, store, user_lat, user_lon, results, i>>

Next ==
    \/ GetSlots
    \/ FetchReturns
    \/ FetchRaises
    \/ ScoreRecord
    \/ SkipRecord
    \/ Present

Spec == Init /\ [][Next]_vars

-----------------------------------------------------------------------------
(* Vocabulary of the properties *)

Last(seq) == seq[Len(seq)]

Without(result, keys) == [k \in DOMAIN result \ keys |-> result[k]]

GeoParts(result) == Split(result["geo"].value, <<",">>)

\* the geo value names a coordinate: exactly two numeric components
HasCoordinate(result) ==
    /\ "geo" \in DOMAIN result
    /\ Len(GeoParts(result)) = 2
    /\ FloatOk(GeoParts(result)[1])
    /\ FloatOk(GeoParts(result)[2])

\* exactly two components, at least one of them not numeric
HasUnparsableGeo(result) ==
    /\ "geo" \in DOMAIN result
    /\ Len(GeoParts(result)) = 2
    /\ ~HasCoordinate(result)

\* no geo, or a number of components other than two
HasNoGeoPair(result) ==
    "geo" \in DOMAIN result => Len(GeoParts(result)) # 2

Within5km(result) ==
    /\ HasCoordinate(result)
    /\ calculate_distance(Float(user_lat), Float(user_lon),
                          Float(GeoParts(result)[1]), Float(GeoParts(result)[2]))
         <= 5000

\* number of entries of an aggregated field: one more than the number of
\* ", " separators, none when the field is absent
Separators(text) ==
    Cardinality({p \in 1..Len(text) - 1 : text[p] = "," /\ text[p + 1] = " "})

Entries(result, key) ==
    IF key \in DOMAIN result THEN Separators(result[key].value) + 1 ELSE 0

\* the binding with every aggregated field of value "" taken out
BlankKeys(result) ==
    {k \in {"all_facilities", "all_surroundings"} \cap DOMAIN result :
        result[k].value = <<>>}

IsDistance(reason) == reason[1] = "distance"

NoDistanceReason(rec) ==
    \A k \in 1..Len(rec.reasons) : ~IsDistance(rec.reasons[k])

\* the pass of the loop just taken appended an entry for results[i - 1]
JustScored ==
    /\ pc = "loop"
    /\ i > 1
    /\ ~GeoRaises(results[i - 1], user_lat, user_lon)

Finished == pc = "done" /\ store.ok

DisplayKeys == {"project_name", "type_name", "ward_name", "area_name",
                "region_name", "price", "rooms", "size"}

Min(a, b) == IF a < b THEN a ELSE b

Descending(recs) ==
    \A a, b \in 1..Len(recs) : a < b => recs[a].score >= recs[b].score

WithScore(recs, s) ==
    LET HasScore(rec) == rec.score = s
    IN SelectSeq(recs, HasScore)

\* the candidate entries of the one message sent
Shown == IF messages[1].kind = "list" THEN messages[1].entries ELSE <<>>

NameOf(result) == Get(result, "project_name", "N/A")

-----------------------------------------------------------------------------
(* Properties *)

\* C1: every record that run() scores gets a non-negative score equal to
\* (1 if it has a coordinate within 5 km of the reference point, else 0)
\* + the number of facilities entries + the number of surroundings entries,
\* and the display-only fields (price, rooms, size, ...) do not change it.
C1_ScoreIsSum ==
    JustScored =>
        LET result == results[i - 1]
            rec == Last(recommendations)
        IN /\ rec.score >= 0
           /\ rec.score = (IF Within5km(result) THEN 1 ELSE 0)
                          + Entries(result, "all_facilities")
                          + Entries(result, "all_surroundings")
           /\ rec.score = Scored(Without(result, DisplayKeys),
                                 user_lat, user_lon).score

\* a priced record 0.4 km away with two facilities and one surrounding: 4
C1_Witness ==
    /\ JustScored
    /\ Within5km(results[i - 1])
    /\ "price" \in DOMAIN results[i - 1]
    /\ Entries(results[i - 1], "all_facilities") = 2
    /\ Entries(results[i - 1], "all_surroundings") = 1
    /\ Last(recommendations).score = 4

\* C2: a record whose geo has exactly two components of which at least one
\* is not numeric is scored as if it had no coordinate, on its facilities
\* and surroundings, and is in the list that is ranked and presented.
C2_UnparsableGeoStillScored ==
    Finished =>
        \A k \in 1..Len(results) :
            HasUnparsableGeo(results[k]) =>
                \E j \in 1..Len(recommendations) :
                    recommendations[j] =
                        Scored(Without(results[k], {"geo"}), user_lat, user_lon)

\* C3: the sort orders by score descending and keeps, among candidates of
\* equal score, the order in which they were appended (the input order).
C3_StableDescending ==
    [][(pc = "loop" /\ pc' = "done") =>
          /\ Len(recommendations') = Len(recommendations)
          /\ Descending(recommendations')
          /\ \A k \in 1..Len(recommendations) :
                WithScore(recommendations', recommendations[k].score)
                    = WithScore(recommendations, recommendations[k].score)]_vars

\* input B, A, C with B and A of equal score and C higher: ranked C, B, A
C3_Witness ==
    /\ Finished
    /\ Len(results) = 3
    /\ <<NameOf(results[1]), NameOf(results[2]), NameOf(results[3])>>
         = <<"B", "A", "C">>
    /\ Len(recommendations) = 3
    /\ recommendations[1].score > recommendations[2].score
    /\ recommendations[2].score = recommendations[3].score
    /\ <<recommendations[1].project_name, recommendations[2].project_name,
         recommendations[3].project_name>> = <<"C", "B", "A">>

\* C4: when the fetch raises, run() does not raise: the only message it
\* sends is the error notice with the failure detail, it sends no list and
\* no "no results" notice, and it returns [].
C4_FetchFailureIsNotice ==
    ~store.ok =>
        /\ outcome # "raised"
        /\ pc \in {"start", "fetch", "done"}
        /\ \A m \in 1..Len(messages) : messages[m].kind = "error"
        /\ pc = "done" =>
              /\ outcome = "returned"
              /\ Len(messages) = 1
              /\ messages[1].detail = store.error

C4_Witness ==
    /\ ~store.ok
    /\ pc = "done"
    /\ outcome = "returned"
    /\ messages = <<[kind |-> "error", detail |-> "QueryBadFormed"]>>

\* C5: with n scored candidates the response holds exactly min(n, 5)
\* entries, the first min(n, 5) of the ranked list in rank order.
C5_ShowsTopFive ==
    Finished =>
        /\ Len(messages) = 1
        /\ Len(Shown) = Min(Len(recommendations), 5)
        /\ \A k \in 1..Len(Shown) : Shown[k] = Render(recommendations[k])

\* six scored candidates, five shown
C5_Witness ==
    /\ Finished
    /\ Len(recommendations) = 6
    /\ Len(Shown) = 5
    /\ recommendations[6].score < recommendations[1].score

\* C6: a fetch that returns zero records yields one message, the fixed
\* "no results" notice, without header or entries, and no error.
C6_NoResultsNotice ==
    (Finished /\ results = <<>>) =>
        /\ Len(messages) = 1
        /\ messages[1].kind = "none"
        /\ DOMAIN messages[1] = {"kind"}
        /\ outcome = "returned"

C6_Witness ==
    /\ Finished
    /\ store.bindings = <<>>
    /\ Len(messages) = 1
    /\ messages[1].kind = "none"

\* C7: the reference point is the supplied pair when both slots are set and
\* the default pair when either is missing, never a mixed pair.
C7_ReferenceIsSuppliedOrDefault ==
    pc # "start" =>
        <<user_lat, user_lon>> =
            IF {"work_latitude", "work_longitude"} \subseteq DOMAIN slots
            THEN <<slots["work_latitude"], slots["work_longitude"]>>
            ELSE <<DefaultLat, DefaultLon>>

\* C8: a facilities or surroundings field of value "" adds nothing to the
\* score and no reason, as if the field were absent.
C8_BlankFieldCountsNothing ==
    JustScored =>
        Last(recommendations) =
            Scored(Without(results[i - 1], BlankKeys(results[i - 1])),
                   user_lat, user_lon)

\* C9: a record without geo, or whose geo does not split into two
\* components, gets no distance point and no distance reason, does not
\* raise, is scored on facilities and surroundings and is in the ranked
\* list, also with score 0 and no reasons.
C9_NoGeoPairStillScored ==
    /\ outcome # "raised"
    /\ (pc = "loop" /\ i > 1 /\ HasNoGeoPair(results[i - 1])) =>
          /\ recommendations # <<>>
          /\ NoDistanceReason(Last(recommendations))
          /\ Last(recommendations).project_name = NameOf(results[i - 1])
          /\ Last(recommendations).score
               = Entries(results[i - 1], "all_facilities")
                 + Entries(results[i - 1], "all_surroundings")
    /\ Finished =>
          \A k \in 1..Len(results) :
              HasNoGeoPair(results[k]) =>
                  \E j \in 1..Len(recommendations) :
                      /\ recommendations[j].project_name = NameOf(results[k])
                      /\ NoDistanceReason(recommendations[j])
                      /\ recommendations[j].score
                           = Entries(results[k], "all_facilities")
                             + Entries(results[k], "all_surroundings")

\* a geo of three components and nothing else: ranked with score 0
C9_Witness ==
    /\ Finished
    /\ Len(results) = 1
    /\ DOMAIN results[1] = {"geo"}
    /\ Len(GeoParts(results[1])) = 3
    /\ Len(recommendations) = 1
    /\ recommendations[1].score = 0
    /\ recommendations[1].reasons = <<>>
    /\ messages[1].kind = "list"

\* C10: every scored candidate has as many reasons as points.
C10_ReasonPerPoint ==
    \A j \in 1..Len(recommendations) :
        Len(recommendations[j].reasons) = recommendations[j].score

\* distance, two facilities and one surrounding all contributed
C10_Witness ==
    \E j \in 1..Len(recommendations) :
        /\ recommendations[j].score = 4
        /\ Len(recommendations[j].reasons) = 4
        /\ IsDistance(recommendations[j].reasons[1])
        /\ recommendations[j].reasons[2][1] = "has"
        /\ recommendations[j].reasons[4][1] = "near"

=============================================================================
